---- MODULE Spec2Model ----
(***************************************************************************)
(* B+tree of kl4mm/bplustree, modular variant: src/btree.rs (BTree),       *)
(* src/node.rs (Node) and src/slot.rs (Slot).                              *)
(*                                                                         *)
(* The heap is a sequence of nodes; a raw pointer *mut Node is an index    *)
(* into it and the null pointer is 0.  Nodes are never freed, so           *)
(* Box::into_raw(Box::new(..)) is Append.  A BTreeSet<Slot> is a set of    *)
(* slots with pairwise distinct keys, Slot's Ord comparing keys only.      *)
(* Option<T> is a sequence of length 0 (None) or 1 (Some).                 *)
(***************************************************************************)
EXTENDS Integers, Sequences, FiniteSets, TLC

\* ---------------------------------------------------------------- bounds
\* K::MAX of the key type (an unsigned integer type of reduced width)
MaxKey == 5
\* values are 1..MaxVal
MaxVal == 2
\* trees are created with max in 2..MaxFanout
MaxFanout == 4
\* number of nodes the heap may hold
MaxNodes == 5
\* the fanout and the heap size of the runs that go deeper with one fanout
WideFanout == 6
MaxNodesWide == 8
\* the heap size of the runs that empty leaves
MaxNodesEmptied == 4

Keys == 0..MaxKey
\* the keys the calls are made with: the two smallest and the two greatest
\* keys of the type in the runs over all fanouts, the keys below K::MAX - 1 or
\* below K::MAX in the runs with one fanout
EdgeKeys == {0, 1, MaxKey - 1, MaxKey}
LowKeys == 0..(MaxKey - 2)
InnerKeys == 0..(MaxKey - 1)
Vals == 1..MaxVal
\* spec.md, section 6: Tree::new requires max_fanout >= 2
Fanouts == 2..MaxFanout
NULL == 0

VARIABLES
    nodes,            \* the heap: Seq of Node
    root,             \* BTree.root
    max,              \* BTree.max
    panic,            \* "none", or the site of the panic that aborted the program
    op,               \* the last call of the public interface: its name and
                      \* arguments, what get returned (got), what delete returned
                      \* (deleted)
    written,          \* history: per key the value of the last insert that returned,
                      \* None when the key was never inserted or a delete followed
    gone              \* history: the keys for which a delete returned true and that
                      \* were not inserted since

vars == <<nodes, root, max, panic, op, written, gone>>

None == << >>
Some(x) == <<x>>

\* ------------------------------------------------------------------ Slot
Left(l) == [tag |-> "Left", v |-> l]
Right(r) == [tag |-> "Right", v |-> r]
Slot(a, e) == [k |-> a, e |-> e]
new_leaf(a, b) == Slot(a, Left(b))
\* new_internal that builds a slot of the value variant
new_internal_holds_value(a, node) == Slot(a, Left(node))
new_internal(a, node) == Slot(a, Right(node))
slot_is_leaf(s) == s.e.tag = "Left"

\* Increment::next: self + 1 in the key type
next_overflows(k) == k = MaxKey
next(k) == (k + 1) % (MaxKey + 1)

\* ------------------------------------------------- BTreeSet<Slot<K, V>>
first(S) == IF S = {} THEN None ELSE Some(CHOOSE s \in S : \A u \in S : s.k <= u.k)
last(S) == IF S = {} THEN None ELSE Some(CHOOSE s \in S : \A u \in S : u.k <= s.k)
nth(S, n) ==
    LET c == {s \in S : Cardinality({u \in S : u.k < s.k}) = n}
    IN IF c = {} THEN None ELSE Some(CHOOSE s \in c : TRUE)
\* split_off that leaves the slot equal to mid behind
split_off_after(S, mid) == {s \in S : s.k > mid.k}
split_off(S, mid) == {s \in S : s.k >= mid.k}
set_get(S, slot) ==
    LET c == {s \in S : s.k = slot.k}
    IN IF c = {} THEN None ELSE Some(CHOOSE s \in c : TRUE)
set_replace(S, slot) == {s \in S : s.k # slot.k} \cup {slot}
\* remove that clears the set
set_remove_clears(S, slot) == {}
set_remove(S, slot) == {s \in S : s.k # slot.k}

\* ------------------------------------------------------------------ Node
new_leaf_node(m) ==
    [t |-> "Leaf", values |-> {}, next |-> NULL, max |-> m, is_root |-> FALSE]
new_internal_node(m) ==
    [t |-> "Internal", values |-> {}, next |-> NULL, max |-> m, is_root |-> FALSE]
is_leaf(node) == node.t = "Leaf"
\* almost_full that reports a node only once it holds more than max slots
almost_full_past_max(node) == Cardinality(node.values) > node.max
almost_full(node) == Cardinality(node.values) >= node.max \div 2
last_k(node) == IF node.values = {} THEN None ELSE Some(last(node.values)[1].k)

\* split whose new sibling is a leaf whatever the kind of the node
split_at_sibling_leaf(h, p, mid, q) ==
    [h |-> Append([h EXCEPT ![p].values = @ \ split_off(@, mid),
                            ![p].next = IF is_leaf(h[p]) THEN q ELSE @],
                  [t |-> "Leaf", values |-> split_off(h[p].values, mid),
                   next |-> IF is_leaf(h[p]) THEN h[p].next ELSE NULL,
                   max |-> h[p].max, is_root |-> FALSE]),
     ptr |-> q, panic |-> "none"]

\* Node::split, once the mid slot is known: the slots from mid on go to the
\* new node q, which a leaf splices into the chain after itself
split_at(h, p, mid, q) ==
    [h |-> Append([h EXCEPT ![p].values = @ \ split_off(@, mid),
                            ![p].next = IF is_leaf(h[p]) THEN q ELSE @],
                  [t |-> h[p].t, values |-> split_off(h[p].values, mid),
                   next |-> IF is_leaf(h[p]) THEN h[p].next ELSE NULL,
                   max |-> h[p].max, is_root |-> FALSE]),
     ptr |-> q, panic |-> "none"]

\* Node::split on the node at p: [h, ptr, panic]
split(h, p) ==
    IF nth(h[p].values, Cardinality(h[p].values) \div 2) = None
    THEN [h |-> h, ptr |-> NULL, panic |-> "expect: there should be a mid slot"]
    ELSE split_at(h, p, nth(h[p].values, Cardinality(h[p].values) \div 2)[1],
                  Len(h) + 1)

\* get_separator whose slot references the sibling instead of ptr
get_separator_of_sibling(h, ptr, other) ==
    IF other = None THEN [ret |-> None, panic |-> "none"]
    ELSE IF first(h[other[1]].values) = None
    THEN [ret |-> None, panic |-> "unwrap: get_separator first"]
    ELSE [ret |-> Some(<<new_internal(first(h[other[1]].values)[1].k, other[1]),
                         other[1]>>),
          panic |-> "none"]

\* Node::get_separator(ptr, other): [ret, panic]
get_separator(h, ptr, other) ==
    IF other = None THEN [ret |-> None, panic |-> "none"]
    ELSE IF first(h[other[1]].values) = None
    THEN [ret |-> None, panic |-> "unwrap: get_separator first"]
    ELSE [ret |-> Some(<<new_internal(first(h[other[1]].values)[1].k, ptr), other[1]>>),
          panic |-> "none"]

\* get_right!(n) of the slot find_child found, if any
child_of(n) ==
    IF n = None THEN [ret |-> None, panic |-> "none"]
    ELSE IF n[1].e.tag = "Left"
    THEN [ret |-> None, panic |-> "unreachable: get_right"]
    ELSE [ret |-> Some(n[1].e.v), panic |-> "none"]

\* find_child that compares with <= instead of <
find_child_inclusive(node, value) ==
    IF is_leaf(node) THEN [ret |-> None, panic |-> "none"]
    ELSE child_of(first({s \in node.values : value.k <= s.k}))

\* find_child without the early return for a leaf
find_child_no_leaf_return(node, value) ==
    child_of(first({s \in node.values : value.k < s.k}))

\* Node::find_child: [ret, panic]
find_child(node, value) ==
    IF is_leaf(node) THEN [ret |-> None, panic |-> "none"]
    ELSE child_of(first({s \in node.values : value.k < s.k}))

\* ----------------------------------------------------------------- BTree
\* node.values.iter().find(|s| get_right!(s) == ptr), given the first slot m
\* that references ptr and the first slot l that holds a value: [ret, panic]
find_first(m, l) ==
    IF l # None /\ (m = None \/ l[1].k < m[1].k)
    THEN [ret |-> None, panic |-> "unreachable: get_right"]
    ELSE [ret |-> m, panic |-> "none"]

find_ptr(S, ptr) ==
    find_first(first({s \in S : s.e.tag = "Right" /\ s.e.v = ptr}),
               first({s \in S : s.e.tag = "Left"}))

\* the heap h with slot s replaced into the node at p
replaced(h, p, s) == [h EXCEPT ![p].values = set_replace(@, s)]

\* The separator repair of the node at p after its child reported a split
\* (s, ptr), in four steps.  Last: the evicted slot referenced dptr, whose last
\* slot is ls; dptr gets a slot keyed by its own last key.
repair_rekey(h, p, oc, dptr, ls) ==
    IF ls = None THEN [h |-> h, panic |-> "unwrap: dis.values.last()"]
    ELSE IF is_leaf(h[dptr]) /\ next_overflows(ls[1].k) /\ oc
    THEN [h |-> h, panic |-> "overflow: next"]
    ELSE [h |-> replaced(h, p, new_internal(IF is_leaf(h[dptr]) THEN next(ls[1].k)
                                            ELSE ls[1].k, dptr)),
          panic |-> "none"]

\* third: ev is what replace(Slot(K::MAX, ptr)) evicted
repair_evicted(h, p, oc, ev) ==
    IF ev = None THEN [h |-> h, panic |-> "none"]
    ELSE IF ev[1].e.tag = "Left" THEN [h |-> h, panic |-> "unreachable: get_right"]
    ELSE repair_rekey(h, p, oc, ev[1].e.v, last(h[ev[1].e.v].values))

\* second: f is the slot of the node that references ptr already, if any
repair_found(h, p, ptr, oc, f) ==
    IF f.panic # "none" THEN [h |-> h, panic |-> f.panic]
    ELSE IF f.ret # None
    THEN [h |-> replaced(h, p, new_internal(f.ret[1].k, ptr)), panic |-> "none"]
    ELSE repair_evicted(replaced(h, p, new_internal(MaxKey, ptr)), p, oc,
                        set_get(h[p].values, new_internal(MaxKey, ptr)))

\* first: node.replace(s): [h, panic]
repair(h, p, s, ptr, oc) ==
    repair_found(replaced(h, p, s), p, ptr, oc,
                 find_ptr(set_replace(h[p].values, s), ptr))

\* the value _insert returns: the separator for raw_node if it was split
insert_return(h, gs) == [h |-> h, ret |-> gs.ret, panic |-> gs.panic]
insert_panic(h, site) == [h |-> h, ret |-> None, panic |-> site]

\* _insert after the repair rp of the node: Node::get_separator(raw_node, split)
insert_repaired(rp, raw_node, spl) ==
    IF rp.panic # "none" THEN insert_panic(rp.h, rp.panic)
    ELSE insert_return(rp.h, get_separator(rp.h, raw_node, spl))

\* _insert after the recursive call returned r
insert_back(r, raw_node, cur, spl, oc) ==
    IF r.panic # "none" THEN r
    ELSE IF r.ret = None THEN insert_return(r.h, get_separator(r.h, raw_node, spl))
    ELSE insert_repaired(repair(r.h, cur, r.ret[1][1], r.ret[1][2], oc), raw_node, spl)

RECURSIVE _insert(_, _, _, _)

\* _insert once find_child returned fc for the node cur
insert_routed(h, raw_node, cur, spl, value, oc, fc) ==
    IF fc.panic # "none" THEN insert_panic(h, fc.panic)
    ELSE IF fc.ret = None /\ ~is_leaf(h[cur])
    THEN insert_panic(h, "unreachable: no routing child")
    ELSE IF fc.ret = None
    THEN insert_return(replaced(h, cur, value),
                       get_separator(replaced(h, cur, value), raw_node, spl))
    ELSE insert_back(_insert(h, fc.ret[1], value, oc), raw_node, cur, spl, oc)

\* _insert after the pre-emptive split sp of raw_node
insert_split(sp, raw_node, value, oc) ==
    IF sp.panic # "none" THEN insert_panic(sp.h, sp.panic)
    ELSE IF last_k(sp.h[raw_node]) = None
    THEN insert_panic(sp.h, "expect: there should be a last node")
    ELSE IF value.k >= last_k(sp.h[raw_node])[1]
    THEN insert_routed(sp.h, raw_node, sp.ptr, Some(sp.ptr), value, oc,
                       find_child(sp.h[sp.ptr], value))
    ELSE insert_routed(sp.h, raw_node, raw_node, Some(sp.ptr), value, oc,
                       find_child(sp.h[raw_node], value))

\* BTree::_insert: [h, ret, panic]
_insert(h, raw_node, value, oc) ==
    IF almost_full(h[raw_node])
    THEN insert_split(split(h, raw_node), raw_node, value, oc)
    ELSE insert_routed(h, raw_node, raw_node, None, value, oc,
                       find_child(h[raw_node], value))

\* the value insert leaves behind: the heap and the root handle
tree(h, rt, site) == [h |-> h, root |-> rt, panic |-> site]

\* insert that leaves the root handle at the old root after a root split
insert_grown_keeps_root(rp, rt, q) ==
    IF rp.panic # "none" THEN tree(rp.h, rt, rp.panic) ELSE tree(rp.h, rt, "none")

\* insert after the repair rp of the new root q
insert_grown(rp, rt, q) ==
    IF rp.panic # "none" THEN tree(rp.h, rt, rp.panic) ELSE tree(rp.h, q, "none")

\* insert that grows a new root without clearing is_root of the old one
insert_root_no_demotion(r, rt, m, oc) ==
    IF r.panic # "none" THEN tree(r.h, rt, r.panic)
    ELSE IF r.ret = None THEN tree(r.h, rt, "none")
    ELSE IF r.ret[1][1].e.tag = "Left" THEN tree(r.h, rt, "unreachable: get_right")
    ELSE IF r.ret[1][1].e.v # rt
    THEN tree(r.h, rt, "assert: get_right!(s) == self.root")
    ELSE insert_grown(repair(Append(r.h, [new_internal_node(m) EXCEPT !.is_root = TRUE]),
                             Len(r.h) + 1, r.ret[1][1], r.ret[1][2], oc),
                      rt, Len(r.h) + 1)

\* insert after _insert on the root rt returned r: a reported split grows a
\* new root
insert_root(r, rt, m, oc) ==
    IF r.panic # "none" THEN tree(r.h, rt, r.panic)
    ELSE IF r.ret = None THEN tree(r.h, rt, "none")
    ELSE IF r.ret[1][1].e.tag = "Left" THEN tree(r.h, rt, "unreachable: get_right")
    ELSE IF r.ret[1][1].e.v # rt
    THEN tree(r.h, rt, "assert: get_right!(s) == self.root")
    ELSE insert_grown(repair(Append([r.h EXCEPT ![rt].is_root = FALSE],
                                    [new_internal_node(m) EXCEPT !.is_root = TRUE]),
                             Len(r.h) + 1, r.ret[1][1], r.ret[1][2], oc),
                      rt, Len(r.h) + 1)

\* insert without the assertion on the entry
insert_unchecked(h, rt, m, entry, oc) ==
    IF rt = NULL
    THEN insert_root(_insert(Append(h, [new_leaf_node(m) EXCEPT !.is_root = TRUE]),
                             Len(h) + 1, entry, oc),
                     Len(h) + 1, m, oc)
    ELSE insert_root(_insert(h, rt, entry, oc), rt, m, oc)

\* BTree::insert: [h, root, panic]
insert(h, rt, m, entry, oc) ==
    IF ~slot_is_leaf(entry) THEN tree(h, rt, "assert: entry.is_leaf()")
    ELSE IF rt = NULL
    THEN insert_root(_insert(Append(h, [new_leaf_node(m) EXCEPT !.is_root = TRUE]),
                             Len(h) + 1, entry, oc),
                     Len(h) + 1, m, oc)
    ELSE insert_root(_insert(h, rt, entry, oc), rt, m, oc)

RECURSIVE _get(_, _, _)

\* _get once find_child returned fc
get_routed(h, raw_node, slot, fc) ==
    IF fc.panic # "none" THEN [ret |-> None, panic |-> fc.panic]
    ELSE IF fc.ret # None THEN _get(h, fc.ret[1], slot)
    ELSE IF is_leaf(h[raw_node])
    THEN [ret |-> set_get(h[raw_node].values, slot), panic |-> "none"]
    ELSE [ret |-> None, panic |-> "none"]

\* BTree::_get: [ret, panic]
_get(h, raw_node, slot) == get_routed(h, raw_node, slot, find_child(h[raw_node], slot))

\* BTree::get: [ret, panic]
get(h, rt, key) ==
    IF rt = NULL THEN [ret |-> None, panic |-> "none"]
    ELSE _get(h, rt, new_internal(key, NULL))

\* delete that removes with split_off(slot) and drops the lower part
node_delete_keeps_greater(h, p, slot) ==
    [h |-> [h EXCEPT ![p].values = {s \in @ : s.k > slot.k}],
     ret |-> set_get(h[p].values, slot) # None, panic |-> "none"]

\* delete that reports whether the leaf holds anything instead of whether it
\* removed the slot
node_delete_reports_nonempty(h, p, slot) ==
    [h |-> [h EXCEPT ![p].values = set_remove(@, slot)],
     ret |-> h[p].values # {}, panic |-> "none"]

\* Node::delete on the node at p: [h, ret, panic]
node_delete(h, p, slot) ==
    [h |-> [h EXCEPT ![p].values = set_remove(@, slot)],
     ret |-> set_get(h[p].values, slot) # None, panic |-> "none"]

RECURSIVE _delete(_, _, _)

\* _delete once find_child returned fc
delete_routed(h, raw_node, slot, fc) ==
    IF fc.panic # "none" THEN [h |-> h, ret |-> FALSE, panic |-> fc.panic]
    ELSE IF fc.ret # None THEN _delete(h, fc.ret[1], slot)
    ELSE IF is_leaf(h[raw_node]) THEN node_delete(h, raw_node, slot)
    ELSE [h |-> h, ret |-> FALSE, panic |-> "none"]

\* BTree::_delete: [h, ret, panic]
_delete(h, raw_node, slot) ==
    delete_routed(h, raw_node, slot, find_child(h[raw_node], slot))

\* BTree::delete: [h, ret, panic]
delete(h, rt, key) ==
    IF rt = NULL THEN [h |-> h, ret |-> FALSE, panic |-> "none"]
    ELSE _delete(h, rt, new_internal(key, NULL))

\* ------------------------------------------- the variant of src/lib.rs
\* src/lib.rs holds an earlier, self-contained BTree: its root is created as
\* an Internal node, a node without a separator above the key gets a new
\* child, and a split hands two slots to the parent.  Node::split,
\* Node::find_child and Node::almost_full are the same code as in src/node.rs.

\* BTreeSet::insert: a slot whose key is in the set already is not inserted
set_insert(S, slot) == IF \E s \in S : s.k = slot.k THEN S ELSE S \cup {slot}

\* Node::get_separators(split, raw_node), once the last keys rk of raw_node
\* and gtk of the sibling are known: [ret, panic]
lib_separators_of(h, raw_node, gt, oc, rk, gtk) ==
    IF rk = None THEN [ret |-> None, panic |-> "expect: self should have a last slot"]
    ELSE IF gtk = None
    THEN [ret |-> None, panic |-> "expect: gt should have a last slot"]
    ELSE IF ~is_leaf(h[raw_node])
    THEN [ret |-> Some(<<new_internal(rk[1], raw_node), new_internal(gtk[1], gt)>>),
          panic |-> "none"]
    ELSE IF oc /\ (next_overflows(rk[1]) \/ next_overflows(gtk[1]))
    THEN [ret |-> None, panic |-> "overflow: incr_k"]
    ELSE [ret |-> Some(<<new_internal(next(rk[1]), raw_node),
                         new_internal(next(gtk[1]), gt)>>),
          panic |-> "none"]

\* Node::get_separators: `me` is raw_node whichever half the call went on with
lib_get_separators(h, raw_node, other, oc) ==
    IF other = None THEN [ret |-> None, panic |-> "none"]
    ELSE lib_separators_of(h, raw_node, other[1], oc, last_k(h[raw_node]),
                           last_k(h[other[1]]))

\* the kind of the child the new-child path creates for the node cur
lib_child_kind(h, cur) ==
    IF first(h[cur].values) = None THEN "Leaf"
    ELSE IF first(h[cur].values)[1].e.tag = "Left" THEN "unreachable"
    ELSE h[first(h[cur].values)[1].e.v].t

\* the new leaf q gets the right neighbour's child as next
lib_link_right(h, q, right) ==
    IF right = None THEN [h |-> h, panic |-> "none"]
    ELSE IF right[1].e.tag = "Left" THEN [h |-> h, panic |-> "unreachable: get_right"]
    ELSE [h |-> [h EXCEPT ![q].next = right[1].e.v], panic |-> "none"]

\* the left neighbour's child gets the new leaf q as next
lib_link_left(h, q, left, right) ==
    IF left = None THEN lib_link_right(h, q, right)
    ELSE IF left[1].e.tag = "Left" THEN [h |-> h, panic |-> "unreachable: get_right"]
    ELSE lib_link_right([h EXCEPT ![left[1].e.v].next = q], q, right)

\* the leaf chain is patched around the slot keyed k of the node cur
lib_link(h, cur, q, kind, k) ==
    IF kind = "Leaf" /\ Cardinality(h[cur].values) > 1
    THEN lib_link_left(h, q, last({u \in h[cur].values : u.k < k}),
                       first({u \in h[cur].values : u.k > k}))
    ELSE [h |-> h, panic |-> "none"]

\* the new-child path of _insert for the node cur: a node q of the kind of
\* cur's children, a slot (value.0 + 1, q) for it: [h, panic]
lib_new_child(h, cur, value, oc, kind, q) ==
    IF kind = "unreachable" THEN [h |-> h, panic |-> "unreachable: first_v"]
    ELSE IF next_overflows(value.k) /\ oc
    THEN [h |-> Append(h, [t |-> kind, values |-> {}, next |-> NULL,
                           max |-> h[cur].max, is_root |-> FALSE]),
          panic |-> "overflow: value.0 + 1"]
    ELSE lib_link(Append([h EXCEPT ![cur].values =
                                 set_insert(@, new_internal(next(value.k), q))],
                         [t |-> kind, values |-> {}, next |-> NULL,
                          max |-> h[cur].max, is_root |-> FALSE]),
                  cur, q, kind, next(value.k))

\* what _insert returns: the heap, the two slots of a split, and the number
\* of nodes the new-child path created
lib_return(h, gs, created) ==
    [h |-> h, ret |-> gs.ret, panic |-> gs.panic, created |-> created]
lib_panic(h, site, created) ==
    [h |-> h, ret |-> None, panic |-> site, created |-> created]

\* _insert after the recursive call returned r: both reported slots are
\* replaced into the node cur
lib_back(r, raw_node, cur, spl, oc, created) ==
    IF r.panic # "none" THEN lib_panic(r.h, r.panic, r.created + created)
    ELSE IF r.ret = None
    THEN lib_return(r.h, lib_get_separators(r.h, raw_node, spl, oc),
                    r.created + created)
    ELSE lib_return(replaced(replaced(r.h, cur, r.ret[1][1]), cur, r.ret[1][2]),
                    lib_get_separators(replaced(replaced(r.h, cur, r.ret[1][1]),
                                                cur, r.ret[1][2]),
                                       raw_node, spl, oc),
                    r.created + created)

RECURSIVE lib_insert_node(_, _, _, _)

\* _insert after the new-child path nc created the node q
lib_created(nc, raw_node, cur, spl, value, oc, q) ==
    IF nc.panic # "none" THEN lib_panic(nc.h, nc.panic, 1)
    ELSE lib_back(lib_insert_node(nc.h, q, value, oc), raw_node, cur, spl, oc, 1)

\* _insert once find_child returned fc for the node cur
lib_routed(h, raw_node, cur, spl, value, oc, fc) ==
    IF fc.panic # "none" THEN lib_panic(h, fc.panic, 0)
    ELSE IF fc.ret # None
    THEN lib_back(lib_insert_node(h, fc.ret[1], value, oc), raw_node, cur, spl, oc, 0)
    ELSE IF h[cur].is_root \/ ~is_leaf(h[cur])
    THEN lib_created(lib_new_child(h, cur, value, oc, lib_child_kind(h, cur),
                                   Len(h) + 1),
                     raw_node, cur, spl, value, oc, Len(h) + 1)
    ELSE lib_return(replaced(h, cur, value),
                    lib_get_separators(replaced(h, cur, value), raw_node, spl, oc), 0)

\* _insert after the pre-emptive split sp of raw_node
lib_split(sp, raw_node, value, oc) ==
    IF sp.panic # "none" THEN lib_panic(sp.h, sp.panic, 0)
    ELSE IF last_k(sp.h[raw_node]) = None
    THEN lib_panic(sp.h, "expect: there should be a last node", 0)
    ELSE IF value.k >= last_k(sp.h[raw_node])[1]
    THEN lib_routed(sp.h, raw_node, sp.ptr, Some(sp.ptr), value, oc,
                    find_child(sp.h[sp.ptr], value))
    ELSE lib_routed(sp.h, raw_node, raw_node, Some(sp.ptr), value, oc,
                    find_child(sp.h[raw_node], value))

\* BTree::_insert of src/lib.rs: [h, ret, panic, created]
lib_insert_node(h, raw_node, value, oc) ==
    IF almost_full(h[raw_node])
    THEN lib_split(split(h, raw_node), raw_node, value, oc)
    ELSE lib_routed(h, raw_node, raw_node, None, value, oc,
                    find_child(h[raw_node], value))

\* what insert leaves behind: the heap, the root handle, and the number of
\* nodes the new-child path created
lib_tree(h, rt, site, created) ==
    [h |-> h, root |-> rt, panic |-> site, created |-> created]

\* insert after _insert on the root rt returned r
lib_insert_root(r, rt, m) ==
    IF r.panic # "none" THEN lib_tree(r.h, rt, r.panic, r.created)
    ELSE IF r.ret = None THEN lib_tree(r.h, rt, "none", r.created)
    ELSE IF r.ret[1][1].e.v # rt
    THEN lib_tree(r.h, rt, "assert: get_right!(old_root_slot) == self.root", r.created)
    ELSE lib_tree(Append([r.h EXCEPT ![rt].is_root = FALSE],
                         [new_internal_node(m) EXCEPT
                              !.is_root = TRUE,
                              !.values = set_insert({r.ret[1][1]}, r.ret[1][2])]),
                  Len(r.h) + 1, "none", r.created)

\* BTree::insert of src/lib.rs: [h, root, panic, created]
lib_insert(h, rt, m, entry, oc) ==
    IF ~slot_is_leaf(entry) THEN lib_tree(h, rt, "assert: entry.is_leaf()", 0)
    ELSE IF rt = NULL
    THEN lib_insert_root(lib_insert_node(Append(h, [new_internal_node(m) EXCEPT
                                                        !.is_root = TRUE]),
                                         Len(h) + 1, entry, oc),
                         Len(h) + 1, m)
    ELSE lib_insert_root(lib_insert_node(h, rt, entry, oc), rt, m)

\* ------------------------------------------------------- the state machine
\* BTree::new(max), before any call
Init ==
    /\ nodes = << >>
    /\ root = NULL
    /\ max \in Fanouts
    /\ panic = "none"
    /\ op = [name |-> "new", key |-> 0, val |-> 0, got |-> None, deleted |-> FALSE]
    /\ written = [k \in Keys |-> None]
    /\ gone = {}

\* tree.insert(Slot::new_leaf(k, v)).  oc is the build's overflow-checks
\* setting: `self + 1` at K::MAX panics when it is on (debug profile) and wraps
\* when it is off (release profile).
InsertWithin(k, v, oc, limit) ==
    /\ panic = "none"
    /\ LET r == insert(nodes, root, max, new_leaf(k, v), oc)
       IN /\ Len(r.h) <= limit
          /\ nodes' = r.h
          /\ root' = r.root
          /\ panic' = r.panic
          /\ op' = [name |-> "insert", key |-> k, val |-> v, got |-> None,
                  deleted |-> FALSE]
          /\ written' = IF r.panic = "none" THEN [written EXCEPT ![k] = Some(v)]
                        ELSE written
          /\ gone' = IF r.panic = "none" THEN gone \ {k} ELSE gone
    /\ UNCHANGED max

Insert(k, v, oc) == InsertWithin(k, v, oc, MaxNodes)
InsertWide(k, v, oc) == InsertWithin(k, v, oc, MaxNodesWide)
InsertEmptied(k, v, oc) == InsertWithin(k, v, oc, MaxNodesEmptied)

\* tree.get(k)
Get(k) ==
    /\ panic = "none"
    /\ LET r == get(nodes, root, k)
       IN /\ panic' = r.panic
          /\ op' = [name |-> "get", key |-> k, val |-> 0, got |-> r.ret,
                  deleted |-> FALSE]
    /\ UNCHANGED <<nodes, root, max, written, gone>>

\* tree.delete(k)
Delete(k) ==
    /\ panic = "none"
    /\ LET r == delete(nodes, root, k)
       IN /\ nodes' = r.h
          /\ panic' = r.panic
          /\ op' = [name |-> "delete", key |-> k, val |-> 0, got |-> None,
                  deleted |-> r.ret]
          /\ written' = IF r.panic = "none" THEN [written EXCEPT ![k] = None]
                        ELSE written
          /\ gone' = IF r.panic = "none" /\ r.ret THEN gone \cup {k} ELSE gone
    /\ UNCHANGED <<root, max>>

Next ==
    \/ \E k \in EdgeKeys, v \in Vals, oc \in BOOLEAN : Insert(k, v, oc)
    \/ \E k \in EdgeKeys : Get(k)
    \/ \E k \in EdgeKeys : Delete(k)

Spec == Init /\ [][Next]_vars

\* only inserts and lookups
NextIns ==
    \/ \E k \in EdgeKeys, v \in Vals, oc \in BOOLEAN : Insert(k, v, oc)
    \/ \E k \in EdgeKeys : Get(k)

SpecIns == Init /\ [][NextIns]_vars

\* inserts (of one value) and deletes on a tree created with max = WideFanout,
\* on a larger heap
InitWide ==
    /\ nodes = << >>
    /\ root = NULL
    /\ max = WideFanout
    /\ panic = "none"
    /\ op = [name |-> "new", key |-> 0, val |-> 0, got |-> None, deleted |-> FALSE]
    /\ written = [k \in Keys |-> None]
    /\ gone = {}

NextWide ==
    \/ \E k \in LowKeys, oc \in BOOLEAN : InsertWide(k, MaxVal, oc)
    \/ \E k \in LowKeys : Delete(k)

SpecWide == InitWide /\ [][NextWide]_vars

\* inserts (of one value) and deletes of the keys below K::MAX on a tree
\* created with max = WideFanout, on a heap of few nodes
NextEmptied ==
    \/ \E k \in InnerKeys, oc \in BOOLEAN : InsertEmptied(k, MaxVal, oc)
    \/ \E k \in InnerKeys : Delete(k)

SpecEmptied == InitWide /\ [][NextEmptied]_vars

\* tree.insert(Slot::new_internal(k, node)): the public insert called with an
\* entry whose payload is a child reference, null or a node of the heap
InsertRef(k, node, oc) ==
    /\ panic = "none"
    /\ LET r == insert(nodes, root, max, new_internal(k, node), oc)
       IN /\ Len(r.h) <= MaxNodes
          /\ nodes' = r.h
          /\ root' = r.root
          /\ panic' = r.panic
          /\ op' = [name |-> "insert_ref", key |-> k, val |-> node, got |-> None,
                  deleted |-> FALSE]
    /\ UNCHANGED <<max, written, gone>>

\* inserts of leaf entries and of entries that hold a child reference
NextRef ==
    \/ \E k \in EdgeKeys, v \in Vals, oc \in BOOLEAN : Insert(k, v, oc)
    \/ \E k \in EdgeKeys, node \in 0..Len(nodes), oc \in BOOLEAN :
          InsertRef(k, node, oc)

SpecRef == Init /\ [][NextRef]_vars

\* node.split() called on a node of the heap
Split(p) ==
    /\ panic = "none"
    /\ Len(nodes) < MaxNodes
    /\ LET r == split(nodes, p)
       IN /\ nodes' = r.h
          /\ panic' = r.panic
          /\ op' = [name |-> "split", key |-> p, val |-> r.ptr, got |-> None,
                  deleted |-> FALSE]
    /\ UNCHANGED <<root, max, written, gone>>

\* a sequence of inserts and deletes, then calls of split
NextSplit ==
    \/ /\ op.name # "split"
       /\ \E k \in EdgeKeys, v \in Vals, oc \in BOOLEAN : Insert(k, v, oc)
    \/ /\ op.name # "split"
       /\ \E k \in EdgeKeys : Delete(k)
    \/ \E p \in 1..Len(nodes) : Split(p)

SpecSplit == Init /\ [][NextSplit]_vars

\* tree.insert(Slot::new_leaf(k, v)) of src/lib.rs
LibInsert(k, v, oc) ==
    /\ panic = "none"
    /\ LET r == lib_insert(nodes, root, max, new_leaf(k, v), oc)
       IN /\ Len(r.h) <= MaxNodesWide
          /\ nodes' = r.h
          /\ root' = r.root
          /\ panic' = r.panic
          /\ op' = [name |-> "lib_insert", key |-> k, val |-> v, got |-> None,
                  deleted |-> FALSE]
          /\ written' = IF r.panic = "none" THEN [written EXCEPT ![k] = Some(v)]
                        ELSE written
    /\ UNCHANGED <<max, gone>>

\* inserts (of one value) of the keys below K::MAX and lookups on the tree of
\* src/lib.rs; get is the same code in both variants
NextLib ==
    \/ \E k \in InnerKeys, oc \in BOOLEAN : LibInsert(k, MaxVal, oc)
    \/ \E k \in InnerKeys : Get(k)

SpecLib == Init /\ [][NextLib]_vars

\* --------------------------------------------- observations of a state
\* what tree.get(k) returns in the current state
lookup(k) == get(nodes, root, k).ret

\* the slots of a BTreeSet in iteration (ascending key) order
RECURSIVE iter(_)
iter(S) == IF S = {} THEN << >> ELSE <<first(S)[1]>> \o iter(S \ {first(S)[1]})

\* BTree::get_leftmost_leaf
RECURSIVE get_leftmost_leaf(_, _)
get_leftmost_leaf(h, raw_node) ==
    IF is_leaf(h[raw_node]) THEN raw_node
    ELSE IF h[raw_node].values = {} THEN NULL
    ELSE get_leftmost_leaf(h, first(h[raw_node].values)[1].e.v)

\* the nodes visited by `while cur != null { ...; cur = node.next }`, at most
\* fuel of them
RECURSIVE chain(_, _, _)
chain(h, cur, fuel) ==
    IF cur = NULL \/ fuel = 0 THEN << >>
    ELSE <<cur>> \o chain(h, h[cur].next, fuel - 1)

RECURSIVE flatten(_)
flatten(ss) == IF ss = << >> THEN << >> ELSE Head(ss) \o flatten(Tail(ss))

\* the (key, value) pairs the scan of test_btree_scan collects
scan(h, rt) ==
    LET c == chain(h, get_leftmost_leaf(h, rt), Len(h) + 1)
        pair(s) == <<s.k, s.e.v>>
        slots(p) == LET it == iter(h[p].values)
                    IN [i \in 1..Len(it) |-> pair(it[i])]
    IN flatten([i \in 1..Len(c) |-> slots(c[i])])

\* the leaves below raw_node in the order of the internal nodes' slots
RECURSIVE leaves(_, _)
leaves(h, raw_node) ==
    IF is_leaf(h[raw_node]) THEN <<raw_node>>
    ELSE LET it == iter(h[raw_node].values)
         IN flatten([i \in 1..Len(it) |-> leaves(h, it[i].e.v)])

Range(f) == {f[i] : i \in DOMAIN f}
\* the keys stored in the leaves below raw_node
keys_below(h, raw_node) ==
    UNION {{s.k : s \in h[p].values} : p \in Range(leaves(h, raw_node))}

\* the nodes reachable from the root handle through child references
RECURSIVE subtree(_, _)
subtree(h, raw_node) ==
    IF is_leaf(h[raw_node]) THEN {raw_node}
    ELSE {raw_node} \cup UNION {subtree(h, s.e.v) : s \in h[raw_node].values}
tree_nodes == IF root = NULL THEN {} ELSE subtree(nodes, root)

\* the pairs a scan has to yield: the keys inserted and not deleted since
expected_scan ==
    LET ks == {k \in Keys : written[k] # None}
        it == iter({new_leaf(k, written[k][1]) : k \in ks})
    IN [i \in 1..Len(it) |-> <<it[i].k, it[i].e.v>>]


\* ------------------------------------------------------------------ claims

\* C1: round trip.  After any sequence of insert calls that all returned,
\* get(k) returns, for every key k that was inserted, the entry holding the
\* value of the most recent insert of k.
C1_RoundTrip ==
    panic = "none" =>
        \A k \in Keys : written[k] # None =>
            lookup(k) = Some(new_leaf(k, written[k][1]))


\* C2: ordered scan completeness.  After any sequence of inserts and deletes
\* the walk from the leftmost leaf along `next` yields exactly the pairs
\* (key, last written value) of the keys inserted and not deleted since, in
\* strictly ascending key order.
C2_ScanComplete ==
    panic = "none" /\ root # NULL => scan(nodes, root) = expected_scan

\* the leaf slots of the tree that hold key k, each with the leaf it is in
leaf_slots(k) ==
    {<<p, s>> \in UNION {{<<q, u>> : u \in nodes[q].values} :
                          q \in {n \in tree_nodes : is_leaf(nodes[n])}} : s.k = k}

\* C3: upsert, not duplication.  Every key occurs in at most one leaf slot of
\* the tree, and after insert(k, v) there is exactly one slot for k and it
\* holds v.
C3_Upsert ==
    panic = "none" =>
        /\ \A k \in Keys : Cardinality(leaf_slots(k)) <= 1
        /\ op.name = "insert" =>
              {ps[2] : ps \in leaf_slots(op.key)} = {new_leaf(op.key, op.val)}

\* C4: deletion removes the key.  Once delete(k) returned true, get(k)
\* returns None, and keeps doing so until k is inserted again.
C4_DeleteRemoves ==
    panic = "none" => \A k \in gone : lookup(k) = None

\* a leaf of the tree without slots
has_empty_leaf == \E p \in tree_nodes : is_leaf(nodes[p]) /\ nodes[p].values = {}
\* the root is an internal node
routed == root # NULL /\ ~is_leaf(nodes[root])

\* C5: deletion leaves other keys alone.  get(j) returns the same before and
\* after delete(k) for every j # k.
C5_DeleteFrame ==
    [][op'.name = "delete" =>
          \A j \in Keys \ {op'.key} :
              get(nodes', root', j).ret = get(nodes, root, j).ret]_vars

\* a delete below an internal root removed a key and another key is still found
C5_Witness ==
    /\ op.name = "delete" /\ op.deleted /\ panic = "none" /\ routed
    /\ \E j \in Keys \ {op.key} : lookup(j) # None

\* C6: insert always succeeds.  No call of insert with a leaf entry panics.
C6_InsertSucceeds ==
    op.name = "insert" => panic = "none"

\* C7: delete(k) returns true exactly when get(k) returned Some right before.
C7_DeleteResult ==
    [][op'.name = "delete" =>
          op'.deleted = (lookup(op'.key) # None)]_vars

\* a second delete of a key below an internal root returned false
C7_Witness ==
    /\ op.name = "delete" /\ ~op.deleted /\ panic = "none" /\ routed
    /\ op.key \in gone

\* C8: get and delete never fail, and on a tree without a root they return
\* None and false.
C8_GetDeleteTotal ==
    /\ op.name \in {"get", "delete"} => panic = "none"
    /\ op.name = "get" /\ root = NULL => op.got = None
    /\ op.name = "delete" /\ root = NULL => ~op.deleted

\* get of K::MAX returned on a tree with an internal root and an empty leaf
C8_Witness ==
    /\ op.name = "get" /\ op.key = MaxKey /\ panic = "none"
    /\ routed /\ has_empty_leaf

\* C9: leaf-chain integrity.  With a root, the walk along `next` from the
\* leftmost leaf ends at null and visits every leaf of the tree exactly once,
\* in the order of the leaves under the internal nodes.
C9_LeafChain ==
    panic = "none" /\ root # NULL =>
        LET c == chain(nodes, get_leftmost_leaf(nodes, root), Len(nodes) + 1)
        IN /\ Len(c) <= Len(nodes)
           /\ Cardinality(Range(c)) = Len(c)
           /\ c = leaves(nodes, root)

\* the slot preceding s in the node's iteration order
prev_slot(S, s) == last({u \in S : u.k < s.k})

\* C10: separators are exclusive upper bounds.  For every slot (s, child) of
\* every internal node, every key stored below child is less than s and at
\* least the key of the preceding slot of the node.
C10_Separators ==
    panic = "none" =>
        \A p \in tree_nodes : ~is_leaf(nodes[p]) =>
            \A s \in nodes[p].values :
                \A k \in keys_below(nodes, s.e.v) :
                    /\ k < s.k
                    /\ prev_slot(nodes[p].values, s) # None =>
                          k >= prev_slot(nodes[p].values, s)[1].k

\* the lengths of the paths of child references from raw_node to a leaf
RECURSIVE leaf_depths(_, _)
leaf_depths(h, raw_node) ==
    IF is_leaf(h[raw_node]) THEN {0}
    ELSE {d + 1 : d \in UNION {leaf_depths(h, s.e.v) : s \in h[raw_node].values}}

\* C11: balance.  Every path of child references from the root to a leaf has
\* the same length.
C11_Balance ==
    panic = "none" /\ root # NULL => Cardinality(leaf_depths(nodes, root)) <= 1

\* a tree of three levels: the root's children are internal nodes
C11_Witness ==
    panic = "none" /\ root # NULL /\ leaf_depths(nodes, root) = {2}

\* the number of levels from the root handle down to the leaves
height(h, rt) ==
    IF rt = NULL THEN 0
    ELSE IF leaf_depths(h, rt) = {} THEN 1
    ELSE 1 + CHOOSE d \in leaf_depths(h, rt) : \A e \in leaf_depths(h, rt) : e <= d

\* the call that led to the next state was an insert that split the root:
\* _insert splits the node it is called on when the node is almost full
root_split == op'.name = "insert" /\ root # NULL /\ almost_full(nodes[root])

C13_Capacity ==
    \A p \in 1..Len(nodes) : Cardinality(nodes[p].values) <= nodes[p].max

\* after an insert an internal node of the tree holds more slots than the
\* threshold of almost_full: it took the slots of a child split
C13_Witness ==
    /\ op.name = "insert" /\ panic = "none"
    /\ \E p \in tree_nodes :
          ~is_leaf(nodes[p]) /\ Cardinality(nodes[p].values) > nodes[p].max \div 2

\* the slots of the heap that reference the node p, each with its node
owners(p) ==
    {qs \in UNION {{<<q, s>> : s \in nodes[q].values} : q \in 1..Len(nodes)} :
        qs[2].e.tag = "Right" /\ qs[2].e.v = p}

\* C14: exclusive ownership.  Every node other than the root is referenced by
\* exactly one slot of one internal node, and the root by none.
C14_Ownership ==
    panic = "none" =>
        \A p \in 1..Len(nodes) :
            Cardinality(owners(p)) = IF p = root THEN 0 ELSE 1

\* C15: root flag.  With a root, is_root is true for the node the root handle
\* references and false for every other node.
C15_RootFlag ==
    panic = "none" /\ root # NULL =>
        \A p \in 1..Len(nodes) : nodes[p].is_root = (p = root)

\* the first root was demoted, and an internal node was split below the
\* current root
C15_Witness ==
    /\ panic = "none" /\ root # NULL /\ root # 1
    /\ ~nodes[1].is_root /\ nodes[root].is_root
    /\ \E p \in tree_nodes \ {root} : ~is_leaf(nodes[p])

\* C16: fail-fast precondition.  The public insert called with an entry that
\* holds a child reference fails the assertion on the entry and leaves the
\* heap and the root handle, null or not, as they were.
C16_FailFast ==
    [][op'.name = "insert_ref" =>
          /\ panic' = "assert: entry.is_leaf()"
          /\ nodes' = nodes
          /\ root' = root]_vars

\* the call was made on a tree with an internal root
C16_Witness ==
    op.name = "insert_ref" /\ panic # "none" /\ routed /\ op.val # NULL

\* C17: emptied leaves stay usable.  An insert into a tree in which deletes
\* left a leaf without slots succeeds: an empty leaf never makes a later
\* insert fail.
C17_EmptiedUsable ==
    [][op'.name = "insert" /\ has_empty_leaf => panic' = "none"]_vars

\* the number of slots of S that precede s
position(S, s) == Cardinality({u \in S : u.k < s.k})

\* C18: split partition.  split() on a node p with n >= 1 slots keeps the
\* slots at positions [0, n/2) and moves those at [n/2, n) to a newly
\* allocated sibling q of the same kind and max; no slot is lost or
\* duplicated, the keys kept are less than the keys moved, a leaf hands its
\* next to q and points to q, and an internal node and its sibling have a
\* null next.
C18_SplitPartition ==
    [][op'.name = "split" /\ nodes[op'.key].values # {} =>
          LET p == op'.key
              q == op'.val
              S == nodes[p].values
              n == Cardinality(S)
          IN /\ panic' = "none"
             /\ q = Len(nodes) + 1 /\ Len(nodes') = q
             /\ nodes'[p].values = {s \in S : position(S, s) < n \div 2}
             /\ nodes'[q].values = {s \in S : position(S, s) >= n \div 2}
             /\ nodes'[p].values \cap nodes'[q].values = {}
             /\ nodes'[p].values \cup nodes'[q].values = S
             /\ \A a \in nodes'[p].values : \A b \in nodes'[q].values : a.k < b.k
             /\ nodes'[q].t = nodes[p].t /\ nodes'[q].max = nodes[p].max
             /\ nodes'[p].t = nodes[p].t /\ nodes'[p].max = nodes[p].max
             /\ is_leaf(nodes[p]) =>
                   nodes'[q].next = nodes[p].next /\ nodes'[p].next = q
             /\ ~is_leaf(nodes[p]) =>
                   nodes'[q].next = NULL /\ nodes'[p].next = NULL
             /\ \A o \in (1..Len(nodes)) \ {p} : nodes'[o] = nodes[o]]_vars

\* split was called on a leaf of several slots that had a next leaf
C18_Witness ==
    /\ op.name = "split" /\ panic = "none"
    /\ is_leaf(nodes[op.key]) /\ nodes[op.val].next # NULL
    /\ nodes[op.key].values # {}

\* C19: root growth.  When the insert into the root reports a split, the new
\* root is a newly allocated internal node with is_root set that holds exactly
\* two slots, one for the old root and one for its new sibling, each keyed
\* above every key of its subtree; the old root has is_root cleared.
C19_RootGrowth ==
    [][root_split /\ panic' = "none" =>
          /\ root' = Len(nodes') /\ root' > Len(nodes)
          /\ ~is_leaf(nodes'[root']) /\ nodes'[root'].is_root
          /\ ~nodes'[root].is_root
          /\ Cardinality(nodes'[root'].values) = 2
          /\ \E s \in nodes'[root'].values : s.e.v = root
          /\ \E s \in nodes'[root'].values : s.e.v # root /\ s.e.v > Len(nodes)
          /\ \A s \in nodes'[root'].values :
                \A k \in keys_below(nodes', s.e.v) : k < s.k]_vars

\* the separator key the rule of C20 derives for a node: its greatest key
\* plus one step for a leaf, its last separator key for an internal node
derived_key(node) ==
    IF is_leaf(node) THEN last_k(node)[1] + 1 ELSE last_k(node)[1]

\* C20: separator derivation on split.  Whenever _insert, called on a node of
\* the tree, reports a split, the slot it returns for the node is keyed by the
\* node's greatest key plus one step if the node is a leaf and by the node's
\* last separator key if it is internal, taken after the entry was placed.
C20_SeparatorDerivation ==
    panic = "none" =>
        \A p \in tree_nodes : \A k \in EdgeKeys : \A oc \in BOOLEAN :
            LET r == _insert(nodes, p, new_leaf(k, MaxVal), oc)
            IN r.panic = "none" /\ r.ret # None =>
                  /\ r.ret[1][1].e = Right(p)
                  /\ r.ret[1][1].k = derived_key(r.h[p])

\* the greatest node a slot of the internal node p references
last_child(p) ==
    CHOOSE q \in {s.e.v : s \in nodes[p].values} :
        \A o \in {s.e.v : s \in nodes[p].values} : o <= q

\* C21: split reporting.  A call of _insert on a node of the tree that returns
\* reports a split exactly when the node was almost full on entry; the slot
\* it reports references the node of the call and the reference it reports is
\* the sibling the split allocated; the assertion of insert on the slot
\* reported for the root never fails.
C21_SplitReporting ==
    /\ panic # "assert: get_right!(s) == self.root"
    /\ panic = "none" =>
          \A p \in tree_nodes : \A k \in EdgeKeys : \A oc \in BOOLEAN :
              LET r == _insert(nodes, p, new_leaf(k, MaxVal), oc)
              IN r.panic = "none" =>
                    /\ (r.ret # None) = almost_full(nodes[p])
                    /\ r.ret # None =>
                          /\ r.ret[1][1].e = Right(p)
                          /\ r.ret[1][2] = Len(nodes) + 1
                          /\ r.h[r.ret[1][2]].t = nodes[p].t

\* the last insert split the root and its entry went down into the sibling
C21_Witness ==
    /\ op.name = "insert" /\ panic = "none" /\ routed /\ root = Len(nodes)
    /\ Cardinality(nodes[root].values) = 2
    /\ op.key \in keys_below(nodes, last_child(root))

\* C22: new-child creation fires at most once per insertion.  In the variant
\* of src/lib.rs one call of insert allocates at most one node through the
\* path that creates a child when no separator exceeds the key.
C22_NewChildOnce ==
    panic = "none" =>
        \A k \in InnerKeys : \A oc \in BOOLEAN :
            lib_insert(nodes, root, max, new_leaf(k, MaxVal), oc).created <= 1

\* C23: routing never dead-ends during insert.  Whenever _insert visits an
\* internal node, the node holds a separator greater than the entry key: no
\* insert, of any key up to K::MAX, runs into the unreachable!() branch for an
\* internal node without a routing child.
C23_RoutingNeverDeadEnds ==
    panic # "unreachable: no routing child"

\* C24: no subtree is lost.  Every node ever allocated is reachable from the
\* root handle through child references.
C24_NoSubtreeLost ==
    panic = "none" /\ root # NULL => tree_nodes = 1..Len(nodes)

\* the nodes whose slots a step changes
touched == {p \in 1..Len(nodes) : nodes'[p].values # nodes[p].values}

\* C25: delete is local.  delete(k) changes at most the slots of one leaf,
\* from which it removes the slot with key k and nothing else; the root
\* handle, the set of nodes, the internal nodes, every next reference and
\* every is_root flag stay, and a delete that returns false changes nothing.
C25_DeleteLocal ==
    [][op'.name = "delete" =>
          /\ root' = root /\ Len(nodes') = Len(nodes)
          /\ \A p \in 1..Len(nodes) :
                /\ nodes'[p].t = nodes[p].t /\ nodes'[p].max = nodes[p].max
                /\ nodes'[p].next = nodes[p].next
                /\ nodes'[p].is_root = nodes[p].is_root
          /\ Cardinality(touched) <= 1
          /\ \A p \in touched :
                /\ is_leaf(nodes[p])
                /\ nodes'[p].values \subseteq nodes[p].values
                /\ Cardinality(nodes[p].values \ nodes'[p].values) = 1
                /\ \A s \in nodes[p].values \ nodes'[p].values : s.k = op'.key
          /\ op'.deleted = (touched # {})]_vars

\* a delete below an internal root removed a slot of its key and another
\* leaf still holds a slot of that key
C25_Witness ==
    /\ op.name = "delete" /\ op.deleted /\ panic = "none" /\ routed
    /\ \E p \in 1..Len(nodes) :
          is_leaf(nodes[p]) /\ \E s \in nodes[p].values : s.k = op.key

\* C26: first insert.  An insert of a leaf entry into a tree without a root
\* that returns leaves a tree of one node: a leaf with is_root set, a null
\* next and exactly the inserted entry, referenced by the root handle.
C26_FirstInsert ==
    [][root = NULL /\ op'.name \in {"insert", "lib_insert"} /\ panic' = "none" =>
          /\ root' = 1
          /\ nodes' = <<[t |-> "Leaf", values |-> {new_leaf(op'.key, op'.val)},
                         next |-> NULL, max |-> max, is_root |-> TRUE]>>]_vars

\* the slots of S with the least key above k
least_above(S, k) == {s \in S : s.k > k /\ \A u \in S : u.k > k => s.k <= u.k}

\* C27: strict routing.  For an internal node find_child returns the child of
\* the first slot whose key is strictly greater than the probe key, and None
\* when no slot key exceeds it; for a leaf it returns None; get and delete
\* on an internal node continue in exactly that child.
C27_StrictRouting ==
    \A p \in 1..Len(nodes) : \A k \in Keys :
        /\ find_child(nodes[p], new_internal(k, NULL)).panic = "none"
        /\ is_leaf(nodes[p]) =>
              find_child(nodes[p], new_internal(k, NULL)).ret = None
        /\ ~is_leaf(nodes[p]) /\ least_above(nodes[p].values, k) = {} =>
              /\ find_child(nodes[p], new_internal(k, NULL)).ret = None
              /\ _get(nodes, p, new_internal(k, NULL)).ret = None
              /\ ~_delete(nodes, p, new_internal(k, NULL)).ret
        /\ ~is_leaf(nodes[p]) =>
              \A s \in least_above(nodes[p].values, k) :
                  /\ find_child(nodes[p], new_internal(k, NULL)).ret = Some(s.e.v)
                  /\ _get(nodes, p, new_internal(k, NULL))
                        = _get(nodes, s.e.v, new_internal(k, NULL))
                  /\ _delete(nodes, p, new_internal(k, NULL))
                        = _delete(nodes, s.e.v, new_internal(k, NULL))

\* get was called with a key equal to a separator of the internal root that
\* is not its last
C27_Witness ==
    /\ op.name = "get" /\ panic = "none" /\ routed
    /\ \E s \in nodes[root].values :
          s.k = op.key /\ least_above(nodes[root].values, s.k) # {}

\* the sites at which get_right! meets a slot of the value variant; get_left!
\* is applied to the slots of leaves only, which the leaf clause below covers
unreachable_arms ==
    {"unreachable: get_right", "unreachable: first_v"}

\* C28: well-typed nodes.  Every slot of a leaf carries a value, every slot of
\* an internal node carries a reference to a node of the heap, the children
\* of one internal node are of one kind, and no call runs into an
\* unreachable!() arm of get_right! or get_left!.
C28_WellTyped ==
    /\ panic \notin unreachable_arms
    /\ \A p \in 1..Len(nodes) :
          /\ is_leaf(nodes[p]) => \A s \in nodes[p].values : s.e.tag = "Left"
          /\ ~is_leaf(nodes[p]) =>
                /\ \A s \in nodes[p].values :
                      s.e.tag = "Right" /\ s.e.v \in 1..Len(nodes)
                /\ \A s \in nodes[p].values : \A u \in nodes[p].values :
                      nodes[s.e.v].t = nodes[u.e.v].t

\* a get found its key in a tree of three levels whose root has two children
C28_Witness ==
    /\ op.name = "get" /\ op.got # None /\ panic = "none" /\ root # NULL
    /\ leaf_depths(nodes, root) = {2}
    /\ Cardinality(nodes[root].values) >= 2


====
